---- MODULE Spec2Model ----
(***************************************************************************)
(* Model of the combined AS7262 + BH1750 logger firmware                   *)
(* (hardware/arduino_sensor_data_acquisition/src/main.cpp).                *)
(*                                                                         *)
(* The program is one control thread: setup() runs once, then the Arduino  *)
(* runtime calls loop() over and over.  Every statement of main.cpp is one *)
(* action; pc names the statement about to execute.  The sensor drivers,   *)
(* the bus and the serial port are external: what they return is an input  *)
(* drawn from a small set, and every call made to them is recorded in the  *)
(* history variable trace.                                                 *)
(*                                                                         *)
(* The serial channel is the sequence serialOut of completed lines plus    *)
(* the line under construction, serialLine.  A line is a sequence of       *)
(* strings: one string per character for numbers and separators, one       *)
(* string per message for the literal diagnostics.                         *)
(*                                                                         *)
(* Lux values are exact rationals counted in units of 1/LuxDen, so that    *)
(* both the driver's level/1.2 results and three-decimal readings such as  *)
(* 123.456 are integers of the model.                                      *)
(***************************************************************************)
EXTENDS Integers, Sequences, FiniteSets, TLC

VARIABLES
    pc,            \* statement about to execute
    serialOut,     \* completed lines written to Serial
    serialLine,    \* characters of the line not yet terminated
    sensorValues,  \* uint16_t sensorValues[AS726x_NUM_CHANNELS]
    temp,          \* uint8_t temp (local of loop)
    lux,           \* float lux (local of loop), in units of 1/LuxDen
    ledMode,       \* direction of the LED_BUILTIN pin
    trace          \* history: every external call, in order

vars == <<pc, serialOut, serialLine, sensorValues, temp, lux, ledMode, trace>>

----------------------------------------------------------------------------
(* Bounds of the model                                                     *)

MaxCycles == 2      \* passes through loop() that are explored
MaxPolls == 1       \* consecutive false answers of a polled condition

----------------------------------------------------------------------------
(* Program constants                                                       *)

AS726x_NUM_CHANNELS == 6
AS726x_VIOLET == 0
AS726x_BLUE == 1
AS726x_GREEN == 2
AS726x_YELLOW == 3
AS726x_ORANGE == 4
AS726x_RED == 5

PollDelayMs == 5
PaceDelayMs == 1000
LuxDigits == 2

MsgAsFail == "Error: could not connect to AS7262 (check wiring)."
MsgBhReady == "BH1750 ready"
MsgBhFail == "Error: could not initialize BH1750 (check wiring)."
MsgInit == "Sensors initialized. Starting measurements..."

Diagnostics == {MsgAsFail, MsgBhReady, MsgBhFail, MsgInit}

\* one lux is LuxDen units of the model
LuxDen == 3000

----------------------------------------------------------------------------
(* Values the external drivers may hand back                               *)

\* readRawValues: batches of six 16-bit counts (index k+1 holds channel k)
Batches ==
    { <<10, 20, 30, 40, 50, 60>>,
      <<65535, 0, 7, 65535, 1, 300>> }

\* readTemperature: 8-bit values
Temps == {24, 255}

\* readLightLevel: level / 1.2 for a 16-bit level, -1 or -2 on a failed
\* read; 123.456 is the reading of the documented scenario
LuxOfLevel(level) == (level * 5 * LuxDen) \div 6

LuxFailed == -1 * LuxDen

LuxScenario == (123456 * LuxDen) \div 1000

\* the acquisition loop is explored with the documented reading; the other
\* readings are explored where the record is formatted (FmtLux)
LuxVals == {LuxScenario}

----------------------------------------------------------------------------
(* History of external calls                                               *)

Ev(op, val) == [op |-> op, val |-> val]

BoolVal(b) == IF b THEN <<1>> ELSE <<0>>

Log(op, val) == trace' = Append(trace, Ev(op, val))

\* how many events of the history t are named op
CountOp(t, op) == Cardinality({i \in 1..Len(t) : t[i].op = op})

\* false answers given to the current poll loop so far
RECURSIVE TrailingFalse(_, _)
TrailingFalse(t, op) ==
    IF t = <<>> THEN 0
    ELSE LET e == t[Len(t)] IN
         IF e.op = op
         THEN (IF e.val = <<0>> THEN 1 + TrailingFalse(SubSeq(t, 1, Len(t) - 1), op) ELSE 0)
         ELSE IF e.op = "delay" THEN TrailingFalse(SubSeq(t, 1, Len(t) - 1), op)
         ELSE 0

----------------------------------------------------------------------------
(* Serial printing                                                         *)

DigitChars == <<"0", "1", "2", "3", "4", "5", "6", "7", "8", "9">>

DigitChar(d) == DigitChars[d + 1]

\* Print::printNumber(n, DEC): the decimal digits of an unsigned number
RECURSIVE PrintNumber(_)
PrintNumber(n) ==
    IF n < 10 THEN <<DigitChar(n)>>
    ELSE PrintNumber(n \div 10) \o <<DigitChar(n % 10)>>

Pow10(k) == IF k = 0 THEN 1 ELSE IF k = 1 THEN 10 ELSE IF k = 2 THEN 100 ELSE 1000

\* the digits-- loop of Print::printFloat: remainder *= 10, print its
\* integer part, subtract it
RECURSIVE PrintFraction(_, _)
PrintFraction(remainder, digits) ==
    IF digits = 0 THEN <<>>
    ELSE LET r10 == remainder * 10
             toPrint == r10 \div LuxDen
         IN  PrintNumber(toPrint) \o PrintFraction(r10 - toPrint * LuxDen, digits - 1)

\* the fraction is cut off instead of rounded
PrintFloat_Truncate(number, digits) ==
    LET neg == number < 0
        mag == IF neg THEN 0 - number ELSE number
        int_part == mag \div LuxDen
        remainder == mag - int_part * LuxDen
    IN  (IF neg THEN <<"-">> ELSE <<>>)
        \o PrintNumber(int_part)
        \o (IF digits > 0 THEN <<".">> ELSE <<>>)
        \o PrintFraction(remainder, digits)

\* Print::printFloat(number, digits): sign, add 0.5 / 10^digits, integer
\* part, '.', then the fraction digit by digit.  Its nan, inf and ovf
\* branches need a magnitude no BH1750 reading has (at most 65535 / 1.2).
PrintFloat(number, digits) ==
    LET neg == number < 0
        mag == IF neg THEN 0 - number ELSE number
        rounding == (LuxDen \div 2) \div Pow10(digits)
        n == mag + rounding
        int_part == n \div LuxDen
        remainder == n - int_part * LuxDen
    IN  (IF neg THEN <<"-">> ELSE <<>>)
        \o PrintNumber(int_part)
        \o (IF digits > 0 THEN <<".">> ELSE <<>>)
        \o PrintFraction(remainder, digits)

SerialPrint(chars) == serialLine' = serialLine \o chars

\* println: the text, then the line terminator completes the line
SerialPrintln(chars) ==
    /\ serialOut' = Append(serialOut, serialLine \o chars)
    /\ serialLine' = <<>>

----------------------------------------------------------------------------
(* setup()                                                                 *)

Init ==
    /\ pc = "serial_begin"
    /\ serialOut = <<>>
    /\ serialLine = <<>>
    /\ sensorValues = [k \in 1..AS726x_NUM_CHANNELS |-> 0]
    /\ temp = 0
    /\ lux = 0
    /\ ledMode = "INPUT"
    /\ trace = <<>>

\* Serial.begin(115200);
SerialBegin ==
    /\ pc = "serial_begin"
    /\ Log("Serial.begin", <<115200>>)
    /\ pc' = "serial_wait"
    /\ UNCHANGED <<serialOut, serialLine, sensorValues, temp, lux, ledMode>>

\* the channel is asked once and setup() goes on whatever it answers
SerialWait_NoWait ==
    /\ pc = "serial_wait"
    /\ \E r \in BOOLEAN :
        /\ Log("Serial", BoolVal(r))
        /\ pc' = "wire_begin"
    /\ UNCHANGED <<serialOut, serialLine, sensorValues, temp, lux, ledMode>>

\* while(!Serial);  a false answer changes nothing and the port is asked again
SerialWait ==
    /\ pc = "serial_wait"
    /\ \E r \in BOOLEAN :
        IF r
        THEN /\ Log("Serial", BoolVal(r))
             /\ pc' = "wire_begin"
        ELSE UNCHANGED <<pc, trace>>
    /\ UNCHANGED <<serialOut, serialLine, sensorValues, temp, lux, ledMode>>

\* Wire.begin();
WireBegin ==
    /\ pc = "wire_begin"
    /\ Log("Wire.begin", <<>>)
    /\ pc' = "pin_mode"
    /\ UNCHANGED <<serialOut, serialLine, sensorValues, temp, lux, ledMode>>

\* pinMode(LED_BUILTIN, OUTPUT);
PinMode ==
    /\ pc = "pin_mode"
    /\ ledMode' = "OUTPUT"
    /\ Log("pinMode", <<>>)
    /\ pc' = "as_begin"
    /\ UNCHANGED <<serialOut, serialLine, sensorValues, temp, lux>>

\* the failure of begin() is ignored
AsBegin_Unchecked ==
    /\ pc = "as_begin"
    /\ \E ok \in BOOLEAN :
        /\ Log("as7262.begin", BoolVal(ok))
        /\ pc' = "bh_begin"
    /\ UNCHANGED <<serialOut, serialLine, sensorValues, temp, lux, ledMode>>

\* if(!as7262.begin())
AsBegin ==
    /\ pc = "as_begin"
    /\ \E ok \in BOOLEAN :
        /\ Log("as7262.begin", BoolVal(ok))
        /\ pc' = IF ok THEN "bh_begin" ELSE "as_fail_print"
    /\ UNCHANGED <<serialOut, serialLine, sensorValues, temp, lux, ledMode>>

\* Serial.println("Error: could not connect to AS7262 (check wiring).");
AsFailPrint ==
    /\ pc = "as_fail_print"
    /\ SerialPrintln(<<MsgAsFail>>)
    /\ Log("Serial.println", <<>>)
    /\ pc' = "as_halt"
    /\ UNCHANGED <<sensorValues, temp, lux, ledMode>>

\* the halt after the spectral diagnostic is missing
AsHalt_FallThrough ==
    /\ pc = "as_halt"
    /\ pc' = "bh_begin"
    /\ UNCHANGED <<serialOut, serialLine, sensorValues, temp, lux, ledMode, trace>>

\* while(1);
AsHalt ==
    /\ pc = "as_halt"
    /\ UNCHANGED vars

\* if(lightMeter.begin(BH1750::CONTINUOUS_HIGH_RES_MODE))
BhBegin ==
    /\ pc = "bh_begin"
    /\ \E ok \in BOOLEAN :
        /\ Log("lightMeter.begin", BoolVal(ok))
        /\ pc' = IF ok THEN "bh_ready_print" ELSE "bh_fail_print"
    /\ UNCHANGED <<serialOut, serialLine, sensorValues, temp, lux, ledMode>>

\* Serial.println("BH1750 ready");
BhReadyPrint ==
    /\ pc = "bh_ready_print"
    /\ SerialPrintln(<<MsgBhReady>>)
    /\ Log("Serial.println", <<>>)
    /\ pc' = "init_print"
    /\ UNCHANGED <<sensorValues, temp, lux, ledMode>>

\* Serial.println("Error: could not initialize BH1750 (check wiring).");
BhFailPrint ==
    /\ pc = "bh_fail_print"
    /\ SerialPrintln(<<MsgBhFail>>)
    /\ Log("Serial.println", <<>>)
    /\ pc' = "bh_halt"
    /\ UNCHANGED <<sensorValues, temp, lux, ledMode>>

\* the halt after the illuminance diagnostic is missing
BhHalt_FallThrough ==
    /\ pc = "bh_halt"
    /\ pc' = "init_print"
    /\ UNCHANGED <<serialOut, serialLine, sensorValues, temp, lux, ledMode, trace>>

\* while(1);
BhHalt ==
    /\ pc = "bh_halt"
    /\ UNCHANGED vars

\* the ready message is skipped
InitPrint_Silent ==
    /\ pc = "init_print"
    /\ pc' = "start_measurement"
    /\ UNCHANGED <<serialOut, serialLine, sensorValues, temp, lux, ledMode, trace>>

\* Serial.println("Sensors initialized. Starting measurements...");
\* setup() returns and the runtime enters loop()
InitPrint ==
    /\ pc = "init_print"
    /\ SerialPrintln(<<MsgInit>>)
    /\ Log("Serial.println", <<>>)
    /\ pc' = "start_measurement"
    /\ UNCHANGED <<sensorValues, temp, lux, ledMode>>

----------------------------------------------------------------------------
(* loop()                                                                  *)

Cycles == CountOp(trace, "as7262.startMeasurement")

\* as7262.startMeasurement();
StartMeasurement ==
    /\ pc = "start_measurement"
    /\ Cycles < MaxCycles
    /\ Log("as7262.startMeasurement", <<>>)
    /\ pc' = "data_ready"
    /\ UNCHANGED <<serialOut, serialLine, sensorValues, temp, lux, ledMode>>

\* the poll loop left after the first query whatever it answered
DataReady_NoWait ==
    /\ pc = "data_ready"
    /\ \E r \in BOOLEAN :
        /\ Log("as7262.dataReady", BoolVal(r))
        /\ pc' = "read_raw"
    /\ UNCHANGED <<serialOut, serialLine, sensorValues, temp, lux, ledMode>>

\* while(!as7262.dataReady())
DataReady ==
    /\ pc = "data_ready"
    /\ \E r \in BOOLEAN :
        /\ r \/ TrailingFalse(trace, "as7262.dataReady") < MaxPolls
        /\ Log("as7262.dataReady", BoolVal(r))
        /\ pc' = IF r THEN "read_raw" ELSE "poll_delay"
    /\ UNCHANGED <<serialOut, serialLine, sensorValues, temp, lux, ledMode>>

\* the poll times out and goes on to read the sensor
PollDelay_Timeout ==
    /\ pc = "poll_delay"
    /\ Log("delay", <<PollDelayMs>>)
    /\ pc' = "read_raw"
    /\ UNCHANGED <<serialOut, serialLine, sensorValues, temp, lux, ledMode>>

\* the poll gives up and halts instead of asking again
PollDelay_GiveUp ==
    /\ pc = "poll_delay"
    /\ Log("delay", <<PollDelayMs>>)
    /\ pc' = "as_halt"
    /\ UNCHANGED <<serialOut, serialLine, sensorValues, temp, lux, ledMode>>

\* delay(5);
PollDelay ==
    /\ pc = "poll_delay"
    /\ Log("delay", <<PollDelayMs>>)
    /\ pc' = "data_ready"
    /\ UNCHANGED <<serialOut, serialLine, sensorValues, temp, lux, ledMode>>

\* the batch is read but never stored in the buffer
ReadRawValues_NotStored ==
    /\ pc = "read_raw"
    /\ \E b \in Batches :
        /\ sensorValues' = sensorValues
        /\ Log("as7262.readRawValues", b)
    /\ pc' = "read_temp"
    /\ UNCHANGED <<serialOut, serialLine, temp, lux, ledMode>>

\* as7262.readRawValues(sensorValues);
ReadRawValues ==
    /\ pc = "read_raw"
    /\ \E b \in Batches :
        /\ sensorValues' = b
        /\ Log("as7262.readRawValues", b)
    /\ pc' = "read_temp"
    /\ UNCHANGED <<serialOut, serialLine, temp, lux, ledMode>>

\* the illuminance read is left out
ReadTemperature_SkipsLux ==
    /\ pc = "read_temp"
    /\ \E t \in Temps :
        /\ temp' = t
        /\ Log("as7262.readTemperature", <<t>>)
    /\ pc' = "print_temp"
    /\ UNCHANGED <<serialOut, serialLine, sensorValues, lux, ledMode>>

\* uint8_t temp = as7262.readTemperature();
ReadTemperature ==
    /\ pc = "read_temp"
    /\ \E t \in Temps :
        /\ temp' = t
        /\ Log("as7262.readTemperature", <<t>>)
    /\ pc' = "read_lux"
    /\ UNCHANGED <<serialOut, serialLine, sensorValues, lux, ledMode>>

\* float lux = lightMeter.readLightLevel();
ReadLightLevel ==
    /\ pc = "read_lux"
    /\ \E l \in LuxVals :
        /\ lux' = l
        /\ Log("lightMeter.readLightLevel", <<l>>)
    /\ pc' = "print_temp"
    /\ UNCHANGED <<serialOut, serialLine, sensorValues, temp, ledMode>>

\* a failed lux read makes the pass drop its record
PrintTemp_SkipsFailedRead ==
    /\ pc = "print_temp"
    /\ IF lux < 0
       THEN /\ pc' = "pace"
            /\ UNCHANGED <<serialLine, trace>>
       ELSE /\ SerialPrint(PrintNumber(temp) \o <<",">>)
            /\ Log("Serial.print", <<>>)
            /\ pc' = "print_violet"
    /\ UNCHANGED <<serialOut, sensorValues, temp, lux, ledMode>>

\* Serial.print(temp); Serial.print(",");
PrintTemp ==
    /\ pc = "print_temp"
    /\ SerialPrint(PrintNumber(temp) \o <<",">>)
    /\ Log("Serial.print", <<>>)
    /\ pc' = "print_violet"
    /\ UNCHANGED <<serialOut, sensorValues, temp, lux, ledMode>>

\* Serial.print(sensorValues[ch]); Serial.print(",");
PrintChannel(ch, here, next) ==
    /\ pc = here
    /\ SerialPrint(PrintNumber(sensorValues[ch + 1]) \o <<",">>)
    /\ Log("Serial.print", <<>>)
    /\ pc' = next
    /\ UNCHANGED <<serialOut, sensorValues, temp, lux, ledMode>>

\* the violet field printed from the blue slot of the buffer
PrintViolet_WrongChannel == PrintChannel(AS726x_BLUE, "print_violet", "print_blue")

PrintViolet == PrintChannel(AS726x_VIOLET, "print_violet", "print_blue")

PrintBlue == PrintChannel(AS726x_BLUE, "print_blue", "print_green")

\* the sensor is read again in the middle of the record
PrintGreen_Rereads ==
    /\ pc = "print_green"
    /\ SerialPrint(PrintNumber(sensorValues[AS726x_GREEN + 1]) \o <<",">>)
    /\ \E b \in Batches :
        /\ sensorValues' = b
        /\ Log("as7262.readRawValues", b)
    /\ pc' = "print_yellow"
    /\ UNCHANGED <<serialOut, temp, lux, ledMode>>

PrintGreen == PrintChannel(AS726x_GREEN, "print_green", "print_yellow")

PrintYellow == PrintChannel(AS726x_YELLOW, "print_yellow", "print_orange")

PrintOrange == PrintChannel(AS726x_ORANGE, "print_orange", "print_red")

PrintRed == PrintChannel(AS726x_RED, "print_red", "print_lux")

\* the last field written with print: the line is never terminated
PrintLux_NoNewline ==
    /\ pc = "print_lux"
    /\ SerialPrint(PrintFloat(lux, LuxDigits))
    /\ Log("Serial.print", <<>>)
    /\ pc' = "pace"
    /\ UNCHANGED <<serialOut, sensorValues, temp, lux, ledMode>>

\* Serial.println(lux, 2);
PrintLux ==
    /\ pc = "print_lux"
    /\ SerialPrintln(PrintFloat(lux, LuxDigits))
    /\ Log("Serial.println", <<>>)
    /\ pc' = "pace"
    /\ UNCHANGED <<sensorValues, temp, lux, ledMode>>

\* the pacing delay is left out
Pace_NoDelay ==
    /\ pc = "pace"
    /\ pc' = "start_measurement"
    /\ UNCHANGED <<serialOut, serialLine, sensorValues, temp, lux, ledMode, trace>>

\* loop() ends in a halt instead of returning
Pace_Stops ==
    /\ pc = "pace"
    /\ Log("delay", <<PaceDelayMs>>)
    /\ pc' = "bh_halt"
    /\ UNCHANGED <<serialOut, serialLine, sensorValues, temp, lux, ledMode>>

\* the indicator is toggled at the end of every pass
Pace_Blink ==
    /\ pc = "pace"
    /\ trace' = trace \o <<Ev("digitalWrite", <<1>>), Ev("delay", <<PaceDelayMs>>)>>
    /\ pc' = "start_measurement"
    /\ UNCHANGED <<serialOut, serialLine, sensorValues, temp, lux, ledMode>>

\* delay(1000);  loop() returns and the runtime calls it again
Pace ==
    /\ pc = "pace"
    /\ Log("delay", <<PaceDelayMs>>)
    /\ pc' = "start_measurement"
    /\ UNCHANGED <<serialOut, serialLine, sensorValues, temp, lux, ledMode>>

----------------------------------------------------------------------------

Next ==
    \/ SerialBegin \/ SerialWait \/ WireBegin \/ PinMode
    \/ AsBegin \/ AsFailPrint \/ AsHalt
    \/ BhBegin \/ BhReadyPrint \/ BhFailPrint \/ BhHalt
    \/ InitPrint
    \/ StartMeasurement \/ DataReady \/ PollDelay
    \/ ReadRawValues \/ ReadTemperature \/ ReadLightLevel
    \/ PrintTemp \/ PrintViolet \/ PrintBlue \/ PrintGreen
    \/ PrintYellow \/ PrintOrange \/ PrintRed \/ PrintLux
    \/ Pace

Spec == Init /\ [][Next]_vars

----------------------------------------------------------------------------
(* Reading the history and the serial output                               *)

StartOp == "as7262.startMeasurement"

ReadyOp == "as7262.dataReady"

SensorReadOps ==
    {"as7262.readRawValues", "as7262.readTemperature", "lightMeter.readLightLevel"}

\* positions of the events named op in a sequence of events
Positions(seg, op) == {i \in 1..Len(seg) : seg[i].op = op}

\* positions of the startMeasurement calls in the history
Starts == Positions(trace, StartOp)

\* positions of the dataReady calls that returned true
Readys == {i \in 1..Len(trace) : trace[i] = Ev(ReadyOp, <<1>>)}

\* a startMeasurement precedes position i
StartedBefore(starts, i) == \E s \in starts : s < i

\* between the last startMeasurement before position i and position i,
\* dataReady returned true
ReadyBeforeIn(starts, readys, i) ==
    \E r \in readys :
        /\ r < i
        /\ StartedBefore(starts, r)
        /\ \A s \in starts : s < i => s < r

ReadyBefore(i) == ReadyBeforeIn(Starts, Readys, i)

\* a line of the serial output that is not one of the diagnostics
IsCsvLine(line) == ~(Len(line) = 1 /\ line[1] \in Diagnostics)

CsvLines == SelectSeq(serialOut, IsCsvLine)

\* position of the n-th startMeasurement of the history, or 0
NthStart(n) ==
    LET starts == Starts
        hits == {s \in starts : Cardinality({x \in starts : x <= s}) = n}
    IN  IF hits = {} THEN 0 ELSE CHOOSE s \in hits : TRUE

\* the calls of the n-th pass through loop(), startMeasurement first
CycleEvents(n) ==
    LET from == NthStart(n)
        next == NthStart(n + 1)
    IN  SubSeq(trace, from, IF next = 0 THEN Len(trace) ELSE next - 1)

\* the fields of a line: the pieces between the separators
RECURSIVE Split(_, _)
Split(line, sep) ==
    IF \A i \in 1..Len(line) : line[i] # sep THEN <<line>>
    ELSE LET i == CHOOSE j \in 1..Len(line) :
                     line[j] = sep /\ \A h \in 1..(j - 1) : line[h] # sep
         IN  <<SubSeq(line, 1, i - 1)>> \o Split(SubSeq(line, i + 1, Len(line)), sep)

IsDigit(c) == \E d \in 0..9 : DigitChars[d + 1] = c

DigitVal(c) == CHOOSE d \in 0..9 : DigitChars[d + 1] = c

IsNumber(field) == Len(field) > 0 /\ \A i \in 1..Len(field) : IsDigit(field[i])

\* the value a reader of the stream takes from an unsigned decimal field
RECURSIVE ParseNumber(_)
ParseNumber(field) ==
    IF Len(field) = 0 THEN 0
    ELSE 10 * ParseNumber(SubSeq(field, 1, Len(field) - 1)) + DigitVal(field[Len(field)])

Fields(line) == Split(line, ",")

\* the six channel fields of a record, as numbers
ChannelsOf(line) ==
    LET f == Fields(line) IN
        [k \in 1..AS726x_NUM_CHANNELS |->
            IF k + 1 <= Len(f) /\ IsNumber(f[k + 1]) THEN ParseNumber(f[k + 1]) ELSE -1]

TempOf(line) ==
    LET f == Fields(line) IN IF IsNumber(f[1]) THEN ParseNumber(f[1]) ELSE -1

----------------------------------------------------------------------------
(* C2: in every cycle no sensor value is read and no part of a record is   *)
(* written to the serial channel until a dataReady query issued after that *)
(* cycle's startMeasurement has returned true.                             *)

C2_NoRecordBeforeReady ==
    /\ LET starts == Starts
           readys == Readys
       IN  \A i \in 1..Len(trace) :
              (\/ trace[i].op \in SensorReadOps
               \/ trace[i].op = "Serial.print"
               \/ (trace[i].op = "Serial.println" /\ StartedBefore(starts, i)))
              => ReadyBeforeIn(starts, readys, i)
    /\ serialLine # <<>> => ReadyBefore(Len(trace) + 1)
    /\ Len(CsvLines) > 0 => \E j \in 1..Len(trace) : trace[j] = Ev(ReadyOp, <<1>>)

\* a record has been emitted in a cycle whose first dataReady answer was false
C2_Witness ==
    /\ Len(CsvLines) > 0
    /\ \E j \in 1..Len(trace) : trace[j] = Ev(ReadyOp, <<0>>)

----------------------------------------------------------------------------
(* C1: the six channel values and the temperature of every emitted record  *)
(* are the values returned by the one readRawValues and the one            *)
(* readTemperature call of the same pass through loop(), made after that   *)
(* pass's startMeasurement and after a dataReady that returned true; no    *)
(* record holds values of an earlier pass or the initial buffer contents.  *)

C1_RecordFromOneMeasurement ==
    /\ Len(CsvLines) <= Cycles
    /\ \A n \in 1..Len(CsvLines) :
          LET seg == CycleEvents(n)
              raws == Positions(seg, "as7262.readRawValues")
              temps == Positions(seg, "as7262.readTemperature")
          IN  /\ Cardinality(raws) = 1
              /\ Cardinality(temps) = 1
              /\ \A r \in raws : \A q \in temps :
                    /\ \E a \in 2..(r - 1) : seg[a] = Ev(ReadyOp, <<1>>)
                    /\ r < q
                    /\ seg[r].val = ChannelsOf(CsvLines[n])
                    /\ seg[q].val = <<TempOf(CsvLines[n])>>

\* two records emitted from the reused buffer, with different channel values
C1_Witness ==
    /\ Len(CsvLines) = 2
    /\ ChannelsOf(CsvLines[1]) # ChannelsOf(CsvLines[2])
    /\ ChannelsOf(CsvLines[1]) \in Batches

----------------------------------------------------------------------------
(* Initialization outcomes                                                 *)

AsBeginFailed == \E i \in 1..Len(trace) : trace[i] = Ev("as7262.begin", <<0>>)

AsBeginOk == \E i \in 1..Len(trace) : trace[i] = Ev("as7262.begin", <<1>>)

BhBeginFailed == \E i \in 1..Len(trace) : trace[i] = Ev("lightMeter.begin", <<0>>)

BhBeginOk == \E i \in 1..Len(trace) : trace[i] = Ev("lightMeter.begin", <<1>>)

CycleOps == {StartOp, ReadyOp} \cup SensorReadOps

LoopPcs ==
    {"start_measurement", "data_ready", "poll_delay", "read_raw", "read_temp",
     "read_lux", "print_temp", "print_violet", "print_blue", "print_green",
     "print_yellow", "print_orange", "print_red", "print_lux", "pace"}

\* how many completed lines of the output are the message msg
Occurrences(msg) == Cardinality({i \in 1..Len(serialOut) : serialOut[i] = <<msg>>})

(* C3: once the spectral sensor's begin() has reported failure, the whole  *)
(* serial output is the spectral failure diagnostic and nothing else: the  *)
(* illuminance sensor's begin() is never called, no other message and no   *)
(* record is printed and startMeasurement is never issued.                 *)

C3_SpectralFailureIsTerminal ==
    AsBeginFailed =>
        /\ pc \in {"as_fail_print", "as_halt"}
        /\ serialOut = (IF pc = "as_halt" THEN << <<MsgAsFail>> >> ELSE <<>>)
        /\ serialLine = <<>>
        /\ \A i \in 1..Len(trace) :
              trace[i].op \notin CycleOps \cup {"lightMeter.begin", "Serial.print"}
        /\ CountOp(trace, "Serial.println") = Len(serialOut)

\* the spectral sensor failed and the program sits in its while(1)
C3_Witness ==
    /\ AsBeginFailed
    /\ pc = "as_halt"
    /\ serialOut = << <<MsgAsFail>> >>

(* C4: once the spectral sensor's begin() has succeeded and the            *)
(* illuminance sensor's begin() has reported failure, the illuminance      *)
(* failure diagnostic is the first and the last line of the output: no     *)
(* confirmation, no "Sensors initialized" message, no record, and          *)
(* startMeasurement is never issued.                                       *)

C4_IlluminanceFailureIsTerminal ==
    (AsBeginOk /\ BhBeginFailed) =>
        /\ pc \in {"bh_fail_print", "bh_halt"}
        /\ serialOut = (IF pc = "bh_halt" THEN << <<MsgBhFail>> >> ELSE <<>>)
        /\ serialLine = <<>>
        /\ \A i \in 1..Len(trace) : trace[i].op \notin CycleOps \cup {"Serial.print"}
        /\ CountOp(trace, "Serial.println") = Len(serialOut)

\* the illuminance sensor failed and the program sits in its while(1)
C4_Witness ==
    /\ AsBeginOk
    /\ BhBeginFailed
    /\ pc = "bh_halt"
    /\ serialOut = << <<MsgBhFail>> >>

----------------------------------------------------------------------------
(* Lines of the steady state                                               *)

\* lines terminated after the first startMeasurement
LinesSinceFirstStart ==
    LET starts == Starts IN
        Cardinality({i \in Positions(trace, "Serial.println") : StartedBefore(starts, i)})

\* passes through loop() that ran to their end
CompletedCycles ==
    Cardinality({i \in 1..Len(trace) : trace[i] = Ev("delay", <<PaceDelayMs>>)})

(* C5: after N completed passes through loop() exactly N records have     *)
(* been emitted, each pass issuing one startMeasurement and writing one    *)
(* record; and every line terminated after the first startMeasurement is   *)
(* a record, never a diagnostic message.                                   *)

C5_OneRecordPerCycle ==
    /\ LinesSinceFirstStart = Len(CsvLines)
    /\ (pc = "start_measurement" => Cycles = CompletedCycles)
    /\ (pc \in LoopPcs \ {"start_measurement"} => Cycles = CompletedCycles + 1)
    /\ Len(CsvLines) = (IF pc = "pace" THEN CompletedCycles + 1 ELSE CompletedCycles)
    /\ \A i \in 1..Len(serialOut) : \A j \in i..Len(serialOut) :
          IsCsvLine(serialOut[i]) => IsCsvLine(serialOut[j])
    /\ (Cycles = 0 => CsvLines = <<>>)

\* MaxCycles passes are complete and MaxCycles records are on the channel
C5_Witness ==
    /\ pc = "start_measurement"
    /\ CompletedCycles = MaxCycles
    /\ Len(CsvLines) = MaxCycles

(* C6: when both sensors initialize, "Sensors initialized" is printed      *)
(* exactly once, after both begin() calls returned true and before the     *)
(* first startMeasurement and the first record, and the only line before   *)
(* it is the illuminance sensor's confirmation.                            *)

C6_SingleReadyMessage ==
    /\ Occurrences(MsgInit) <= 1
    /\ Occurrences(MsgBhReady) <= 1
    /\ (Occurrences(MsgInit) = 1 =>
          /\ AsBeginOk /\ BhBeginOk
          /\ Len(serialOut) >= 2
          /\ serialOut[1] = <<MsgBhReady>>
          /\ serialOut[2] = <<MsgInit>>)
    /\ ((AsBeginOk /\ BhBeginOk /\ pc \notin {"bh_ready_print", "init_print"}) =>
          Occurrences(MsgInit) = 1)
    /\ ((Cycles > 0 \/ pc \in LoopPcs) =>
          /\ Occurrences(MsgInit) = 1
          /\ LET lines == Positions(trace, "Serial.println") IN
                \A i \in Starts : Cardinality({h \in lines : h < i}) >= 2)

\* both sensors initialized, the ready message is out and a cycle has begun
C6_Witness ==
    /\ Occurrences(MsgInit) = 1
    /\ Cycles > 0
    /\ Len(CsvLines) > 0

----------------------------------------------------------------------------
(* Control states of the acquisition cycle                                 *)

Phase(p) ==
    IF p = "start_measurement" THEN "IDLE"
    ELSE IF p \in {"data_ready", "poll_delay"} THEN "MEASURING"
    ELSE IF p \in {"read_raw", "read_temp", "read_lux"} THEN "READING"
    ELSE IF p \in {"print_temp", "print_violet", "print_blue", "print_green",
                   "print_yellow", "print_orange", "print_red", "print_lux"}
         THEN "EMITTING"
    ELSE IF p = "pace" THEN "PACING"
    ELSE IF p \in {"as_halt", "bh_halt"} THEN "FAULT"
    ELSE "INIT"

CyclePhases == {"IDLE", "MEASURING", "READING", "EMITTING", "PACING"}

PhaseSteps ==
    { <<"INIT", "IDLE">>, <<"INIT", "FAULT">>,
      <<"IDLE", "MEASURING">>, <<"MEASURING", "READING">>,
      <<"READING", "EMITTING">>, <<"EMITTING", "PACING">>,
      <<"PACING", "IDLE">> }

PhaseStepOk ==
    \/ Phase(pc') = Phase(pc)
    \/ <<Phase(pc), Phase(pc')>> \in PhaseSteps

\* inside the cycle some statement can always run, up to the explored passes
CycleNeverStops ==
    (Phase(pc) \in CyclePhases /\ ~(pc = "start_measurement" /\ Cycles >= MaxCycles))
        => \/ ENABLED StartMeasurement \/ ENABLED DataReady \/ ENABLED PollDelay
           \/ ENABLED ReadRawValues \/ ENABLED ReadTemperature
           \/ ENABLED ReadLightLevel \/ ENABLED PrintTemp
           \/ ENABLED PrintViolet \/ ENABLED PrintBlue \/ ENABLED PrintGreen
           \/ ENABLED PrintYellow \/ ENABLED PrintOrange \/ ENABLED PrintRed
           \/ ENABLED PrintLux \/ ENABLED Pace

(* C9: the control state changes only along IDLE -> MEASURING -> READING   *)
(* -> EMITTING -> PACING -> IDLE; the fault state is entered only from     *)
(* initialization, and inside the cycle the program never stops.           *)

C9_CycleStateMachine ==
    /\ [][PhaseStepOk]_vars
    /\ [][Phase(pc) \in CyclePhases => Phase(pc') \in CyclePhases]_vars
    /\ [](Cycles > 0 => Phase(pc) \in CyclePhases)
    /\ []CycleNeverStops

\* the cycle has come back to IDLE after a full pass
C9_Witness ==
    /\ pc = "start_measurement"
    /\ CompletedCycles >= 1

(* C10: initialization happens once and in a fixed order: the bus is       *)
(* initialized before any driver call, the spectral begin() precedes the   *)
(* illuminance begin(), each begin() is called at most once, and no        *)
(* startMeasurement, dataReady or read happens before both returned true.  *)

DriverOps == CycleOps \cup {"as7262.begin", "lightMeter.begin"}

C10_InitOnceInOrder ==
    /\ CountOp(trace, "Wire.begin") <= 1
    /\ CountOp(trace, "as7262.begin") <= 1
    /\ CountOp(trace, "lightMeter.begin") <= 1
    /\ CountOp(trace, "Serial.begin") <= 1
    /\ CountOp(trace, "pinMode") <= 1
    /\ LET wires == Positions(trace, "Wire.begin")
           asOk == {a \in 1..Len(trace) : trace[a] = Ev("as7262.begin", <<1>>)}
           bhOk == {b \in 1..Len(trace) : trace[b] = Ev("lightMeter.begin", <<1>>)}
       IN  \A i \in 1..Len(trace) :
              /\ trace[i].op \in DriverOps => \E w \in wires : w < i
              /\ trace[i].op = "lightMeter.begin" => \E a \in asOk : a < i
              /\ trace[i].op \in CycleOps =>
                    \E a \in asOk : \E b \in bhOk : a < b /\ b < i
    /\ (pc \in LoopPcs => AsBeginOk /\ BhBeginOk)

\* both drivers were initialized and the first measurement has been read
C10_Witness ==
    /\ AsBeginOk
    /\ BhBeginOk
    /\ \E i \in 1..Len(trace) : trace[i].op = "as7262.readRawValues"

----------------------------------------------------------------------------
(* Formatting of one record, over a wide range of readings                 *)
(*                                                                         *)
(* SpecFmt starts where loop() has just read the three sensors in its      *)
(* first pass (setup succeeded, the first dataReady answered true) and     *)
(* runs the eight printing statements.                                     *)

MaxLevel == 6       \* raw BH1750 levels 0..MaxLevel are explored

FmtCounts == {0, 10, 65535}

FmtBatches ==
    [1..AS726x_NUM_CHANNELS -> FmtCounts] \cup {<<10, 20, 30, 40, 50, 60>>}

FmtTemps == {0, 24, 255}

\* driver results level / 1.2, both failure codes, the documented reading,
\* and readings that sit on a rounding boundary: 0.005, 0.995, 9.995
FmtLux ==
    {LuxOfLevel(level) : level \in 0..MaxLevel}
        \cup {LuxOfLevel(65535), LuxFailed, 2 * LuxFailed, LuxScenario}
        \cup {15, 2985, 29985}

FmtTrace(b, t, l) ==
    << Ev("Serial.begin", <<115200>>), Ev("Serial", <<1>>), Ev("Wire.begin", <<>>),
       Ev("pinMode", <<>>), Ev("as7262.begin", <<1>>), Ev("lightMeter.begin", <<1>>),
       Ev("Serial.println", <<>>), Ev("Serial.println", <<>>),
       Ev(StartOp, <<>>), Ev(ReadyOp, <<1>>),
       Ev("as7262.readRawValues", b), Ev("as7262.readTemperature", <<t>>),
       Ev("lightMeter.readLightLevel", <<l>>) >>

InitFmt ==
    /\ pc = "print_temp"
    /\ serialOut = << <<MsgBhReady>>, <<MsgInit>> >>
    /\ serialLine = <<>>
    /\ ledMode = "OUTPUT"
    /\ sensorValues \in FmtBatches
    /\ temp \in FmtTemps
    /\ lux \in FmtLux
    /\ trace = FmtTrace(sensorValues, temp, lux)

NextFmt ==
    \/ PrintTemp \/ PrintViolet \/ PrintBlue \/ PrintGreen
    \/ PrintYellow \/ PrintOrange \/ PrintRed \/ PrintLux

SpecFmt == InitFmt /\ [][NextFmt]_vars

\* the result of the call named op in the n-th pass through loop()
ResultOf(n, op) ==
    LET seg == CycleEvents(n) IN seg[CHOOSE i \in Positions(seg, op) : TRUE].val

\* one hundredth of a lux, in units of the model
HundredthUnits == LuxDen \div 100

Abs(x) == IF x < 0 THEN 0 - x ELSE x

\* optional sign, digits, a point, exactly two digits
IsFixed2(field) ==
    LET body == IF Len(field) > 0 /\ field[1] = "-" THEN Tail(field) ELSE field
        n == Len(body)
    IN  /\ n >= 4
        /\ body[n - 2] = "."
        /\ IsNumber(SubSeq(body, 1, n - 3))
        /\ IsNumber(SubSeq(body, n - 1, n))

\* the value of such a field, in hundredths
Hundredths(field) ==
    LET neg == field[1] = "-"
        body == IF neg THEN Tail(field) ELSE field
        n == Len(body)
        mag == 100 * ParseNumber(SubSeq(body, 1, n - 3)) + ParseNumber(SubSeq(body, n - 1, n))
    IN  IF neg THEN 0 - mag ELSE mag

ScenarioLine ==
    << "2", "4", ",", "1", "0", ",", "2", "0", ",", "3", "0", ",", "4", "0", ",",
       "5", "0", ",", "6", "0", ",", "1", "2", "3", ".", "4", "6" >>

(* C7: every emitted record has exactly 8 comma-separated fields in the    *)
(* order temperature, violet, blue, green, yellow, orange, red, lux:       *)
(* field 1 is the temperature, field k+1 is the k-th channel of the batch  *)
(* read in that pass, for every batch, and field 8 is the lux field.       *)

C7_EightFieldsInOrder ==
    \A n \in 1..Len(CsvLines) :
        LET f == Fields(CsvLines[n])
            batch == ResultOf(n, "as7262.readRawValues")
        IN  /\ Len(f) = 8
            /\ \A k \in 1..7 : IsNumber(f[k])
            /\ <<ParseNumber(f[1])>> = ResultOf(n, "as7262.readTemperature")
            /\ ParseNumber(f[2]) = batch[AS726x_VIOLET + 1]
            /\ ParseNumber(f[3]) = batch[AS726x_BLUE + 1]
            /\ ParseNumber(f[4]) = batch[AS726x_GREEN + 1]
            /\ ParseNumber(f[5]) = batch[AS726x_YELLOW + 1]
            /\ ParseNumber(f[6]) = batch[AS726x_ORANGE + 1]
            /\ ParseNumber(f[7]) = batch[AS726x_RED + 1]
            /\ \A k \in 1..AS726x_NUM_CHANNELS : ParseNumber(f[k + 1]) = batch[k]
            /\ ~IsNumber(f[8])

\* a record whose six channels all differ has been emitted
C7_Witness ==
    /\ Len(CsvLines) = 1
    /\ ResultOf(1, "as7262.readRawValues") = <<10, 20, 30, 40, 50, 60>>
    /\ Len(Fields(CsvLines[1])) = 8

(* C8: the lux field of every record has exactly 2 digits after the point  *)
(* and is the reading rounded to the nearest hundredth, for driver         *)
(* results, failure codes and boundary values alike; temperature 24,       *)
(* channels (10,20,30,40,50,60) and lux 123.456 give exactly the line      *)
(* 24,10,20,30,40,50,60,123.46.                                            *)

C8_LuxRoundedToTwoPlaces ==
    \A n \in 1..Len(CsvLines) :
        LET f == Fields(CsvLines[n])
            l == ResultOf(n, "lightMeter.readLightLevel")[1]
        IN  /\ Len(f) >= 8
            /\ IsFixed2(f[8])
            /\ 2 * Abs(Hundredths(f[8]) * HundredthUnits - l) <= HundredthUnits
            /\ (l < 0 <=> f[8][1] = "-")
            /\ (/\ ResultOf(n, "as7262.readTemperature") = <<24>>
                /\ ResultOf(n, "as7262.readRawValues") = <<10, 20, 30, 40, 50, 60>>
                /\ l = LuxScenario)
               => CsvLines[n] = ScenarioLine

\* the documented scenario has been emitted
C8_Witness ==
    /\ Len(CsvLines) = 1
    /\ ResultOf(1, "lightMeter.readLightLevel") = <<LuxScenario>>
    /\ ResultOf(1, "as7262.readTemperature") = <<24>>
    /\ ResultOf(1, "as7262.readRawValues") = <<10, 20, 30, 40, 50, 60>>
    /\ CsvLines[1] = ScenarioLine

----------------------------------------------------------------------------
(* The status indicator                                                    *)

\* statements of setup() that run before pinMode(LED_BUILTIN, OUTPUT)
BeforePinModePcs == {"serial_begin", "serial_wait", "wire_begin", "pin_mode"}

\* calls that drive a pin
PinWriteOps == {"digitalWrite", "analogWrite"}

(* C11: the indicator pin is configured for output exactly once, during    *)
(* initialization, and is never driven high or low afterwards: not in any  *)
(* state of the cycle and not in the fault state.                          *)

C11_IndicatorConfiguredNeverDriven ==
    /\ CountOp(trace, "pinMode") = (IF pc \in BeforePinModePcs THEN 0 ELSE 1)
    /\ ledMode = (IF pc \in BeforePinModePcs THEN "INPUT" ELSE "OUTPUT")
    /\ \A i \in 1..Len(trace) : trace[i].op \notin PinWriteOps
    /\ \A i \in Positions(trace, "pinMode") : \A s \in Starts : i < s

\* a full pass has run with the pin configured as an output
C11_Witness ==
    /\ ledMode = "OUTPUT"
    /\ CompletedCycles >= 1
    /\ CountOp(trace, "pinMode") = 1

----------------------------------------------------------------------------
(* Progress of the acquisition loop                                        *)
(*                                                                         *)
(* The single control thread always executes its next statement once both  *)
(* sensors are initialized (weak fairness of the statements that follow    *)
(* the two begin() calls), and a started measurement is eventually         *)
(* reported ready (strong fairness of the dataReady query that answers     *)
(* true).                                                                  *)

AfterInitStep ==
    \/ BhReadyPrint \/ InitPrint
    \/ StartMeasurement \/ DataReady \/ PollDelay
    \/ ReadRawValues \/ ReadTemperature \/ ReadLightLevel
    \/ PrintTemp \/ PrintViolet \/ PrintBlue \/ PrintGreen
    \/ PrintYellow \/ PrintOrange \/ PrintRed \/ PrintLux
    \/ Pace

ReportedReady == DataReady /\ pc' = "read_raw"

SpecLive ==
    /\ Init
    /\ [][Next]_vars
    /\ WF_vars(AfterInitStep)
    /\ SF_vars(ReportedReady)

(* C12: with both sensors initialized and every started measurement        *)
(* eventually reported ready, each startMeasurement is eventually followed *)
(* by the emission of that pass's record, each record by the next          *)
(* startMeasurement, and the loop keeps emitting records for as many       *)
(* passes as are explored, ending ready to start the next one.             *)

C12_EveryCycleCompletes ==
    /\ \A n \in 1..MaxCycles : (Cycles = n) ~> (Len(CsvLines) = n)
    /\ \A n \in 1..(MaxCycles - 1) : (Len(CsvLines) = n) ~> (Cycles = n + 1)
    /\ (AsBeginOk /\ BhBeginOk) ~>
          (Len(CsvLines) = MaxCycles /\ pc = "start_measurement")

\* a record was emitted in a pass whose measurement was not ready at once,
\* and the next pass has started
C12_Witness ==
    /\ Cycles = 2
    /\ Len(CsvLines) = 1
    /\ \E i \in 1..Len(trace) : trace[i] = Ev(ReadyOp, <<0>>)

----------------------------------------------------------------------------
(* The data-ready poll                                                     *)

PollPcs == {"data_ready", "poll_delay"}

\* the calls of the pass in progress
CurrentCycle == CycleEvents(Cycles)

\* startMeasurement, then false answers and 5 ms pauses in alternation
IsUnansweredPoll(seg) ==
    /\ Len(seg) >= 1
    /\ seg[1] = Ev(StartOp, <<>>)
    /\ \A k \in 2..Len(seg) :
          seg[k] = (IF k % 2 = 0 THEN Ev(ReadyOp, <<0>>) ELSE Ev("delay", <<PollDelayMs>>))

\* while the driver has not reported ready nothing but queries and pauses
\* has happened in the pass, and nothing of its record exists
StalledInPoll ==
    pc \in PollPcs =>
        LET seg == CurrentCycle IN
            /\ IsUnansweredPoll(seg)
            /\ (pc = "poll_delay" <=> Len(seg) % 2 = 0)
            /\ serialLine = <<>>
            /\ Len(CsvLines) = Cycles - 1
            /\ LinesSinceFirstStart = Cycles - 1

\* a step taken inside the poll either stays in it, touching nothing but
\* the history, or leaves it for the reads on a true answer
PollStep ==
    pc \in PollPcs =>
        /\ UNCHANGED <<serialOut, serialLine, sensorValues, temp, lux, ledMode>>
        /\ \/ /\ pc' \in PollPcs
              /\ pc' # pc
              /\ trace' \in {Append(trace, Ev(ReadyOp, <<0>>)),
                             Append(trace, Ev("delay", <<PollDelayMs>>))}
           \/ /\ pc' = "read_raw"
              /\ trace' = Append(trace, Ev(ReadyOp, <<1>>))

(* C13: the data-ready poll has no timeout or escape: as long as the       *)
(* driver has not reported ready the program only repeats dataReady        *)
(* queries separated by the 5 ms pause; it emits nothing, reads no sensor, *)
(* issues no startMeasurement and does not halt, and it leaves the poll    *)
(* only on a true answer.                                                  *)

C13_PollHasNoEscape ==
    /\ []StalledInPoll
    /\ [][PollStep]_vars

\* the driver has answered false as often as is explored and is asked again
C13_Witness ==
    /\ pc = "data_ready"
    /\ TrailingFalse(trace, ReadyOp) = MaxPolls
    /\ Cycles = MaxCycles

----------------------------------------------------------------------------
(* Order of the calls of one pass                                          *)

\* the calls that follow the true answer of dataReady, in program order
AfterReadyOps ==
    << "as7262.readRawValues", "as7262.readTemperature", "lightMeter.readLightLevel",
       "Serial.print", "Serial.print", "Serial.print", "Serial.print",
       "Serial.print", "Serial.print", "Serial.print",
       "Serial.println", "delay" >>

\* a pass is an unanswered poll, then the true answer, then a prefix of
\* the reads, the prints and the pacing delay
IsOrderedCycle(seg) ==
    LET answered == {r \in 1..Len(seg) : seg[r] = Ev(ReadyOp, <<1>>)} IN
        IF answered = {} THEN IsUnansweredPoll(seg)
        ELSE /\ Cardinality(answered) = 1
             /\ \A r \in answered :
                   /\ r % 2 = 0
                   /\ IsUnansweredPoll(SubSeq(seg, 1, r - 1))
                   /\ Len(seg) - r <= Len(AfterReadyOps)
                   /\ \A k \in 1..(Len(seg) - r) : seg[r + k].op = AfterReadyOps[k]

(* C14: in every pass, after dataReady has returned true, readRawValues,   *)
(* readTemperature and readLightLevel are called exactly once each, in     *)
(* this order, before anything of the record is written; the illuminance   *)
(* sensor is never read while the spectral measurement is being polled.    *)

C14_ReadsOnceInOrder ==
    /\ \A n \in 1..Cycles : IsOrderedCycle(CycleEvents(n))
    /\ (pc \in {"read_raw", "read_temp", "read_lux"} => serialLine = <<>>)
    /\ (serialLine # <<>> =>
          \A op \in SensorReadOps : Cardinality(Positions(CurrentCycle, op)) = 1)
    /\ (pc \in PollPcs =>
          \A op \in SensorReadOps : Positions(CurrentCycle, op) = {})

\* the three reads of the second pass are done, after a false answer, and
\* nothing of its record is written yet
C14_Witness ==
    /\ pc = "print_temp"
    /\ Cycles = 2
    /\ serialLine = <<>>
    /\ \E k \in 1..Len(CurrentCycle) : CurrentCycle[k] = Ev(ReadyOp, <<0>>)

----------------------------------------------------------------------------
(* Delays                                                                  *)

Delays == Positions(trace, "delay")

PaceDelays == {i \in Delays : trace[i].val = <<PaceDelayMs>>}

PollDelays == {i \in Delays : trace[i].val = <<PollDelayMs>>}

\* every delay is the pacing delay or the poll pause; the pacing delay
\* comes right after the record's println and right before the next
\* startMeasurement, and every startMeasurement but the first follows one
PacingBetweenRecords ==
    /\ Delays = PaceDelays \cup PollDelays
    /\ \A i \in PaceDelays :
          /\ i > 1 /\ trace[i - 1].op = "Serial.println"
          /\ StartedBefore(Starts, i)
          /\ (i < Len(trace) => trace[i + 1].op = StartOp)
    /\ \A s \in Starts :
          StartedBefore(Starts, s) => trace[s - 1] = Ev("delay", <<PaceDelayMs>>)
    /\ LET lines == {i \in Positions(trace, "Serial.println") : StartedBefore(Starts, i)} IN
          \A i \in lines : \A j \in lines :
              i < j => \E d \in PaceDelays : i < d /\ d < j

\* no delay between a true dataReady and the println of the record
NoDelayWhileEmitting ==
    \A r \in Readys : \A d \in Delays :
        r < d => \E l \in Positions(trace, "Serial.println") : r < l /\ l < d

\* C15 as first stated: every 5 ms pause lies between two dataReady queries
\* that both returned false
C15_AsStated ==
    /\ PacingBetweenRecords
    /\ NoDelayWhileEmitting
    /\ \A i \in PollDelays :
          /\ i > 1 /\ trace[i - 1] = Ev(ReadyOp, <<0>>)
          /\ (i < Len(trace) => trace[i + 1] = Ev(ReadyOp, <<0>>))

(* C15: after each record exactly one pacing delay of 1000 ms elapses      *)
(* before the next startMeasurement, so two consecutive records are        *)
(* separated by it; the only other delay is the 5 ms pause that follows    *)
(* every dataReady query that returned false and precedes the next query,  *)
(* whatever that query returns; no delay lies between a true dataReady     *)
(* and the emission of the record.                                         *)

C15_PacingAndPollDelays ==
    /\ PacingBetweenRecords
    /\ NoDelayWhileEmitting
    /\ \A i \in PollDelays :
          /\ i > 1 /\ trace[i - 1] = Ev(ReadyOp, <<0>>)
          /\ (i < Len(trace) => trace[i + 1].op = ReadyOp)
    /\ \A q \in Positions(trace, ReadyOp) :
          (trace[q] = Ev(ReadyOp, <<0>>) /\ q < Len(trace)) => q + 1 \in PollDelays

\* two records are out, and a 5 ms pause was followed by a true answer
C15_Witness ==
    /\ Len(CsvLines) = 2
    /\ PaceDelays # {}
    /\ \E i \in PollDelays : i < Len(trace) /\ trace[i + 1] = Ev(ReadyOp, <<1>>)

----------------------------------------------------------------------------
(* Readings and control flow                                               *)
(*                                                                         *)
(* SpecVal starts like SpecFmt, with any of the explored readings just     *)
(* taken in the first pass, and runs the rest of that pass: the eight      *)
(* printing statements, the pacing delay and the next startMeasurement.    *)

NextVal ==
    \/ PrintTemp \/ PrintViolet \/ PrintBlue \/ PrintGreen
    \/ PrintYellow \/ PrintOrange \/ PrintRed \/ PrintLux
    \/ Pace \/ StartMeasurement

SpecVal == InitFmt /\ [][NextVal]_vars

\* the statements that follow the three reads, in program order
AfterReadsPcs ==
    << "print_temp", "print_violet", "print_blue", "print_green", "print_yellow",
       "print_orange", "print_red", "print_lux", "pace", "start_measurement",
       "data_ready" >>

\* calls made since the three reads of the first pass
CallsSinceReads == Len(trace) - Len(FmtTrace(sensorValues, temp, lux))

(* C16: the values read never influence control flow and reach the record  *)
(* as read: whatever the channel counts, the temperature and the lux       *)
(* reading, the pass runs the same statements, emits exactly one record    *)
(* holding those counts, that temperature and that reading to two          *)
(* decimals, paces and starts the next pass; no pass is skipped or         *)
(* repeated, nothing else is printed and the program never halts.          *)

C16_ValuesPassThrough ==
    /\ CallsSinceReads \in 0..(Len(AfterReadsPcs) - 1)
    /\ pc = AfterReadsPcs[CallsSinceReads + 1]
    /\ Len(CsvLines) = (IF CallsSinceReads >= 8 THEN 1 ELSE 0)
    /\ Len(serialOut) = 2 + Len(CsvLines)
    /\ Cycles = (IF pc = "data_ready" THEN 2 ELSE 1)
    /\ Len(CsvLines) = 1 =>
          LET f == Fields(CsvLines[1]) IN
              /\ ChannelsOf(CsvLines[1]) = sensorValues
              /\ sensorValues = ResultOf(1, "as7262.readRawValues")
              /\ <<TempOf(CsvLines[1])>> = ResultOf(1, "as7262.readTemperature")
              /\ <<lux>> = ResultOf(1, "lightMeter.readLightLevel")
              /\ Len(f) = 8
              /\ IsFixed2(f[8])
              /\ 2 * Abs(Hundredths(f[8]) * HundredthUnits - lux) <= HundredthUnits

\* a record of implausible readings (saturated counts, temperature 255, a
\* failed lux read) is out and the next pass has started
C16_Witness ==
    /\ pc = "data_ready"
    /\ Len(CsvLines) = 1
    /\ ResultOf(1, "as7262.readRawValues") = [k \in 1..AS726x_NUM_CHANNELS |-> 65535]
    /\ temp = 255
    /\ lux = LuxFailed

----------------------------------------------------------------------------
(* One measurement at a time                                               *)

\* statements between the readRawValues of a pass and the end of its record
BufferInUsePcs ==
    {"read_temp", "read_lux", "print_temp", "print_violet", "print_blue",
     "print_green", "print_yellow", "print_orange", "print_red", "print_lux"}

\* the pass was reported ready, then read, then its record was terminated
IsFinishedCycle(seg) ==
    \E r \in 1..Len(seg) : \E v \in Positions(seg, "as7262.readRawValues") :
        \E l \in Positions(seg, "Serial.println") :
            /\ seg[r] = Ev(ReadyOp, <<1>>)
            /\ r < v
            /\ v < l

OneOutstanding ==
    /\ \A n \in 1..(Cycles - 1) : IsFinishedCycle(CycleEvents(n))
    /\ Cycles - Len(CsvLines) \in {0, 1}
    /\ (pc \in BufferInUsePcs =>
          /\ Cycles - Len(CsvLines) = 1
          /\ sensorValues = ResultOf(Cycles, "as7262.readRawValues"))

\* the buffer is written by readRawValues only
BufferWrittenByReadOnly ==
    sensorValues' # sensorValues =>
        /\ pc = "read_raw"
        /\ pc' = "read_temp"
        /\ trace' = Append(trace, Ev("as7262.readRawValues", sensorValues'))

(* C17: at most one spectral measurement is outstanding: startMeasurement  *)
(* is issued only when every earlier measurement has been reported ready,  *)
(* read and emitted, and the sensorValues buffer is not overwritten        *)
(* between the readRawValues of a pass and the end of that pass's record.  *)

C17_OneMeasurementAtATime ==
    /\ []OneOutstanding
    /\ [][BufferWrittenByReadOnly]_vars

\* the second pass is printing from the buffer, which now holds a batch
\* other than the one of the first record
C17_Witness ==
    /\ pc = "print_red"
    /\ Cycles = 2
    /\ Len(CsvLines) = 1
    /\ sensorValues # ChannelsOf(CsvLines[1])

----------------------------------------------------------------------------
(* Waiting for the serial channel                                          *)

SerialOps == {"Serial.begin", "Serial"}

\* the serial channel has reported ready
SerialReadys == {i \in 1..Len(trace) : trace[i] = Ev("Serial", <<1>>)}

\* until the channel is ready only Serial.begin has been called
NothingBeforeSerialReady ==
    /\ (pc \in {"serial_begin", "serial_wait"} =>
          /\ trace = (IF pc = "serial_begin" THEN <<>> ELSE <<Ev("Serial.begin", <<115200>>)>>)
          /\ ledMode = "INPUT"
          /\ serialOut = <<>>
          /\ serialLine = <<>>)
    /\ LET readys == SerialReadys IN
          /\ Cardinality(readys) <= 1
          /\ \A i \in 1..Len(trace) :
                trace[i].op \notin SerialOps => \E j \in readys : j < i
    /\ (Phase(pc) # "INIT" => SerialReadys # {})

\* the wait is left only when the channel reports ready, and then for
\* Wire.begin
SerialWaitStep ==
    pc = "serial_wait" =>
        /\ pc' = "wire_begin"
        /\ trace' = Append(trace, Ev("Serial", <<1>>))
        /\ UNCHANGED <<serialOut, serialLine, sensorValues, temp, lux, ledMode>>

(* C18: setup() waits for the serial channel before anything else: until   *)
(* the channel reports ready the bus is not initialized, no begin() is     *)
(* called, the indicator is not configured and nothing is output; while    *)
(* the channel is not ready the program stays in the wait, which it        *)
(* leaves neither for the fault state nor for the acquisition cycle.       *)

C18_SetupWaitsForSerial ==
    /\ []NothingBeforeSerialReady
    /\ [][SerialWaitStep]_vars

\* the program is waiting for the serial channel
C18_Witness ==
    /\ pc = "serial_wait"
    /\ trace = <<Ev("Serial.begin", <<115200>>)>>
    /\ ledMode = "INPUT"
    /\ ENABLED SerialWait

====
